---- MODULE Spec2Model ----
(***************************************************************************)
(* Model of src/src/app.py: a Flask application exposing read endpoints    *)
(* over User, People, Vehicles, Planets and create/delete endpoints over   *)
(* Favorites.                                                              *)
(*                                                                         *)
(* The state is the database (five tables) plus the last two HTTP          *)
(* exchanges.  One action per route (GET /, the sitemap, reads no table    *)
(* and is left out).  An action is the whole request:                      *)
(* Flask's dispatch of the matched rule to its view function, the view     *)
(* function's body, and the conversion of an exception into a response.    *)
(*                                                                         *)
(* Dispatch.  Flask calls the view function of the matched rule with every *)
(* variable of the rule as a keyword argument,                             *)
(*     view_functions[rule.endpoint] applied to view_args as keywords,     *)
(* so a view function whose parameters are not exactly the rule's          *)
(* variables raises TypeError before its first statement runs.  The        *)
(* TypeError is not an APIException, no handler is registered for it, and  *)
(* the application answers 500.                                            *)
(***************************************************************************)
EXTENDS Integers, Sequences, FiniteSets, TLC

\* Row ids and path ids range over 1..MaxId.
MaxId == 2

Ids == 1..MaxId

\* An absent optional value (python None, SQL NULL) is the empty set, a
\* present value k is {k}.
None == {}
Some(k) == {k}

VARIABLES
    User,       \* table User: set of rows
    People,     \* table People
    Vehicles,   \* table Vehicles
    Planets,    \* table Planets
    Favorites,  \* table Favorites
    req,        \* the last request
    resp,       \* the response to it
    pre,        \* the Favorites table as it was before the last request
    prev        \* the exchange before the last one when that was a POST:
                \* [req, resp, pre], and NoExchange otherwise

vars == <<User, People, Vehicles, Planets, Favorites, req, resp, pre, prev>>
tables == <<User, People, Vehicles, Planets, Favorites>>

(***************************************************************************)
(* Rows                                                                    *)
(***************************************************************************)
\* A row of User, People, Vehicles or Planets as the ORM holds it: the mapped
\* class and the primary key (no handler reads another column).
EntityRow(cls, i) == [tablename |-> cls, id |-> i]

\* A row of Favorites: primary key and three optional foreign keys.
FavoriteRow(i, p, v, pl) ==
    [tablename |-> "favorites", id |-> i,
     people_id |-> p, vehicles_id |-> v, planets_id |-> pl]

PkIds(table) == {r.id : r \in table}

Max(S) == CHOOSE x \in S : \A y \in S : y <= x
Min(S) == CHOOSE x \in S : \A y \in S : x <= y

(***************************************************************************)
(* Data access (the calls app.py makes on the ORM)                         *)
(***************************************************************************)
RECURSIVE RowsByPk(_)
RowsByPk(table) ==
    IF table = {} THEN <<>>
    ELSE LET first == CHOOSE r \in table : r.id = Min(PkIds(table))
         IN  <<first>> \o RowsByPk(table \ {first})

\* Mutant of query_all: only the first row (a .first() or LIMIT 1 in place of
\* .all()).
query_all_first(table) ==
    IF table = {} THEN <<>> ELSE <<RowsByPk(table)[1]>>

\* X.query.all(): every row of the table, one element per row.  No ORDER BY
\* is given; the rows are taken in primary-key order.
query_all(table) == RowsByPk(table)

\* Mutant of query_get: the first row of the table whatever the key (a
\* .first() in place of .get(pk)).
query_get_first(table, pk) ==
    IF table = {} THEN None ELSE Some(RowsByPk(table)[1])

\* X.query.get(pk): the row with that primary key, or None.
query_get(table, pk) ==
    IF \E r \in table : r.id = pk
    THEN Some(CHOOSE r \in table : r.id = pk)
    ELSE None

\* The row held by a result of query_get that is not None.
TheRow(found) == CHOOSE r \in found : TRUE

\* The primary key the store assigns to the next inserted row.
AutoId(table) == IF table = {} THEN 1 ELSE Max(PkIds(table)) + 1

\* favorite = Favorites(<kind>_id=k): the columns not named are NULL; the
\* primary key is assigned at commit.
NewFavorite(table, kind, k) ==
    FavoriteRow(AutoId(table),
                IF kind = "people" THEN Some(k) ELSE None,
                IF kind = "vehicles" THEN Some(k) ELSE None,
                IF kind = "planets" THEN Some(k) ELSE None)

\* db.session.add(row); db.session.commit()
session_add_commit(table, row) == table \cup {row}

\* db.session.delete(row); db.session.commit()
session_delete_commit(table, row) == table \ {row}

(***************************************************************************)
(* Serialization (models.py): the mapping of a row's columns, the primary  *)
(* key included, foreign keys as raw ids.  app.py calls it under three     *)
(* names.                                                                  *)
(***************************************************************************)
serialize(row) ==
    IF row.tablename = "favorites"
    THEN [id |-> row.id, people_id |-> row.people_id,
          vehicles_id |-> row.vehicles_id, planets_id |-> row.planets_id]
    ELSE [id |-> row.id]

to_json(row) == serialize(row)

to_jason(row) == serialize(row)

(***************************************************************************)
(* Responses                                                               *)
(***************************************************************************)
\* return <json body>, status
Json(status, body) == [status |-> status, fault |-> "none", body |-> body]

\* An exception no handler is registered for: Flask answers 500.
InternalServerError(exc) == [status |-> 500, fault |-> exc, body |-> <<>>]

\* APIException.to_dict() (utils.py)
to_dict(message, status_code) == [message |-> message, status_code |-> status_code]

\* raise APIException(message, status_code) caught by the errorhandler:
\* return jsonify(error.to_dict()), error.status_code
handle_invalid_usage(message, status_code) ==
    Json(status_code, to_dict(message, status_code))

\* What a view function leaves behind: the response and the Favorites table.
Outcome(r, table) == [resp |-> r, favorites |-> table]

(***************************************************************************)
(* View functions, with the parameters the source declares.  The method of *)
(* the request (flask.request.method) is passed in.                        *)
(***************************************************************************)
\* [x.to_json() for x in rows]
Listing(rows) == [i \in 1..Len(rows) |-> to_json(rows[i])]

\* [x.to_jason() for x in rows]
ListingJason(rows) == [i \in 1..Len(rows) |-> to_jason(rows[i])]

\* jsonify(x.serialize()), 200 on the result of query.get: None has no
\* attribute serialize, and the AttributeError is not handled.
Single(found) ==
    IF found = None
    THEN InternalServerError("AttributeError")
    ELSE Json(200, serialize(TheRow(found)))

get_users == Json(200, Listing(query_all(User)))

get_single_user(user_id) == Single(query_get(User, user_id))

get_favorites == Json(200, Listing(query_all(Favorites)))

get_people == Json(200, ListingJason(query_all(People)))

get_single_person(person_id) == Single(query_get(People, person_id))

get_vehicles == Json(200, ListingJason(query_all(Vehicles)))

get_single_vehicle(vehicle_id) == Single(query_get(Vehicles, vehicle_id))

get_planets == Json(200, ListingJason(query_all(Planets)))

get_single_planet(planet_id) == Single(query_get(Planets, planet_id))

\* The body shared by the three post_or_delete_favorite_* functions; kind is
\* the column the POST branch sets.
post_or_delete_favorite(method, kind, k) ==
    IF method = "POST"
    THEN LET favorite == NewFavorite(Favorites, kind, k)
         IN  Outcome(Json(200, serialize(favorite)),
                     session_add_commit(Favorites, favorite))
    ELSE LET favorite == query_get(Favorites, k)
         IN  IF favorite = None
             THEN Outcome(handle_invalid_usage("User not found", 404), Favorites)
             ELSE Outcome(Json(200, serialize(TheRow(favorite))),
                          session_delete_commit(Favorites, TheRow(favorite)))

post_or_delete_favorite_person(method, person_id) ==
    post_or_delete_favorite(method, "people", person_id)

post_or_delete_favorite_vehicle(method, vehicle_id) ==
    post_or_delete_favorite(method, "vehicles", vehicle_id)

post_or_delete_favorite_planet(method, planet_id) ==
    post_or_delete_favorite(method, "planets", planet_id)

(***************************************************************************)
(* Dispatch                                                                *)
(***************************************************************************)
\* The variables of a matched rule: a set of <<name, value>> pairs.
NoArgs == {}
Names(view_args) == {a[1] : a \in view_args}
Arg(view_args, name) == (CHOOSE a \in view_args : a[1] = name)[2]

\* The view function is called with the rule's variables as keyword
\* arguments.  params are the parameters the def line declares (none has a
\* default); outcome is the function's result when the call binds.
dispatch_request(view_args, params, outcome) ==
    IF Names(view_args) = params
    THEN outcome
    ELSE Outcome(InternalServerError("TypeError"), Favorites)

NoRequest == [method |-> "NONE", endpoint |-> "none", view_args |-> NoArgs]
NoResponse == [status |-> 0, fault |-> "none", body |-> <<>>]
NoExchange == [req |-> NoRequest, resp |-> NoResponse, pre |-> {}]

\* One request and its response.
Exchange(method, endpoint, view_args, params, outcome) ==
    LET out == dispatch_request(view_args, params, outcome)
    IN  /\ req' = [method |-> method, endpoint |-> endpoint, view_args |-> view_args]
        /\ resp' = out.resp
        /\ Favorites' = out.favorites
        /\ pre' = Favorites
        /\ prev' = IF req.method = "POST"
                   THEN [req |-> req, resp |-> resp, pre |-> pre]
                   ELSE NoExchange
        /\ UNCHANGED <<User, People, Vehicles, Planets>>

(***************************************************************************)
(* Routes                                                                  *)
(***************************************************************************)
\* GET /users
GetUsers ==
    Exchange("GET", "get_users", NoArgs, {}, Outcome(get_users, Favorites))

\* GET /users/<int:user_id>
GetSingleUser ==
    \E uid \in Ids :
        Exchange("GET", "get_single_user", {<<"user_id", uid>>}, {"user_id"},
                 Outcome(get_single_user(uid), Favorites))

\* GET /users/<int:user_id>/favorites         def get_favorites():
GetFavorites ==
    \E uid \in Ids :
        Exchange("GET", "get_favorites", {<<"user_id", uid>>}, {},
                 Outcome(get_favorites, Favorites))

\* POST, DELETE /users/<int:user_id>/favorites/people/<int:person_id>
\*                                             def post_or_delete_favorite_person(person_id):
FavoritePerson ==
    \E method \in {"POST", "DELETE"}, uid \in Ids, k \in Ids :
        Exchange(method, "post_or_delete_favorite_person",
                 {<<"user_id", uid>>, <<"person_id", k>>}, {"person_id"},
                 post_or_delete_favorite_person(method, k))

\* POST, DELETE /users/<int:user_id>/favorites/vehicles/<int:vehicle_id>
\*                                             def post_or_delete_favorite_vehicle(vehicle_id):
FavoriteVehicle ==
    \E method \in {"POST", "DELETE"}, uid \in Ids, k \in Ids :
        Exchange(method, "post_or_delete_favorite_vehicle",
                 {<<"user_id", uid>>, <<"vehicle_id", k>>}, {"vehicle_id"},
                 post_or_delete_favorite_vehicle(method, k))

\* POST, DELETE /users/<int:user_id>/favorites/planets/<int:planet_id>
\*                                             def post_or_delete_favorite_planet(planet_id):
FavoritePlanet ==
    \E method \in {"POST", "DELETE"}, uid \in Ids, k \in Ids :
        Exchange(method, "post_or_delete_favorite_planet",
                 {<<"user_id", uid>>, <<"planet_id", k>>}, {"planet_id"},
                 post_or_delete_favorite_planet(method, k))

\* GET /people
GetPeople ==
    Exchange("GET", "get_people", NoArgs, {}, Outcome(get_people, Favorites))

\* GET /people/<int:person_id>
GetSinglePerson ==
    \E k \in Ids :
        Exchange("GET", "get_single_person", {<<"person_id", k>>}, {"person_id"},
                 Outcome(get_single_person(k), Favorites))

\* GET /vehicles
GetVehicles ==
    Exchange("GET", "get_vehicles", NoArgs, {}, Outcome(get_vehicles, Favorites))

\* GET /vehicles/<int:vehicle_id>
GetSingleVehicle ==
    \E k \in Ids :
        Exchange("GET", "get_single_vehicle", {<<"vehicle_id", k>>}, {"vehicle_id"},
                 Outcome(get_single_vehicle(k), Favorites))

\* GET /planets
GetPlanets ==
    Exchange("GET", "get_planets", NoArgs, {}, Outcome(get_planets, Favorites))

\* GET /planets/<int:planet_id>
GetSinglePlanet ==
    \E k \in Ids :
        Exchange("GET", "get_single_planet", {<<"planet_id", k>>}, {"planet_id"},
                 Outcome(get_single_planet(k), Favorites))

(***************************************************************************)
(* Initial states and specifications                                       *)
(***************************************************************************)
\* The database outlives the process and is also written through the admin
\* panel, so a run starts from any table contents.
EntityTables(cls) == {{EntityRow(cls, i) : i \in S} : S \in SUBSET Ids}

\* Nothing constrains the foreign keys of a Favorites row.
FkValues == {None} \cup {Some(k) : k \in Ids}

\* The Favorites tables whose rows have their primary keys in ids.
FavoriteTables(ids) ==
    UNION {{{FavoriteRow(i, f[i][1], f[i][2], f[i][3]) : i \in S} :
                f \in [S -> FkValues \X FkValues \X FkValues]} :
           S \in SUBSET ids}

\* A catalog with a row for every id but the last.
SeedTable(cls) == {EntityRow(cls, i) : i \in Ids \ {MaxId}}

InitExchanges ==
    /\ req = NoRequest
    /\ resp = NoResponse
    /\ pre = Favorites
    /\ prev = NoExchange

\* The whole API over any Favorites table and a seeded catalog.
Init ==
    /\ User = SeedTable("user")
    /\ People = SeedTable("people")
    /\ Vehicles = SeedTable("vehicles")
    /\ Planets = SeedTable("planets")
    /\ Favorites \in FavoriteTables(Ids)
    /\ InitExchanges

Next ==
    \/ GetUsers
    \/ GetSingleUser
    \/ GetFavorites
    \/ FavoritePerson
    \/ FavoriteVehicle
    \/ FavoritePlanet
    \/ GetPeople
    \/ GetSinglePerson
    \/ GetVehicles
    \/ GetSingleVehicle
    \/ GetPlanets
    \/ GetSinglePlanet

Spec == Init /\ [][Next]_vars

\* The read endpoints over any contents of the four catalog tables.
InitRead ==
    /\ User \in EntityTables("user")
    /\ People \in EntityTables("people")
    /\ Vehicles \in EntityTables("vehicles")
    /\ Planets \in EntityTables("planets")
    /\ Favorites = {}
    /\ InitExchanges

NextRead ==
    \/ GetUsers
    \/ GetSingleUser
    \/ GetPeople
    \/ GetSinglePerson
    \/ GetVehicles
    \/ GetSingleVehicle
    \/ GetPlanets
    \/ GetSinglePlanet

SpecRead == InitRead /\ [][NextRead]_vars

(***************************************************************************)
(* Vocabulary of the properties                                            *)
(***************************************************************************)
FavoriteEndpoints ==
    {"post_or_delete_favorite_person", "post_or_delete_favorite_vehicle",
     "post_or_delete_favorite_planet"}
SingleEndpoints ==
    {"get_single_user", "get_single_person", "get_single_vehicle", "get_single_planet"}
ListEndpoints == {"get_users", "get_people", "get_vehicles", "get_planets"}

\* The rule variable that names the target of a request.
TargetName(endpoint) ==
    CASE endpoint = "post_or_delete_favorite_person" -> "person_id"
      [] endpoint = "post_or_delete_favorite_vehicle" -> "vehicle_id"
      [] endpoint = "post_or_delete_favorite_planet" -> "planet_id"
      [] endpoint = "get_single_user" -> "user_id"
      [] endpoint = "get_single_person" -> "person_id"
      [] endpoint = "get_single_vehicle" -> "vehicle_id"
      [] endpoint = "get_single_planet" -> "planet_id"

Target(r) == Arg(r.view_args, TargetName(r.endpoint))

\* The Favorites column a favorites endpoint is about.
KindColumn(endpoint) ==
    CASE endpoint = "post_or_delete_favorite_person" -> "people_id"
      [] endpoint = "post_or_delete_favorite_vehicle" -> "vehicles_id"
      [] endpoint = "post_or_delete_favorite_planet" -> "planets_id"

\* The table a read endpoint is about.
TableOf(endpoint) ==
    CASE endpoint \in {"get_users", "get_single_user"} -> User
      [] endpoint \in {"get_people", "get_single_person"} -> People
      [] endpoint \in {"get_vehicles", "get_single_vehicle"} -> Vehicles
      [] endpoint \in {"get_planets", "get_single_planet"} -> Planets

IsFavoriteRequest(r, method) == r.endpoint \in FavoriteEndpoints /\ r.method = method

Elements(seq) == {seq[i] : i \in 1..Len(seq)}

(***************************************************************************)
(* Properties                                                              *)
(***************************************************************************)
\* C1: a DELETE on a favorites endpoint naming an id k that is the primary
\* key of no Favorites row answers 404 with the message "User not found" and
\* leaves the Favorites table as it was.
C1_DeleteAbsentAnswers404 ==
    (IsFavoriteRequest(req, "DELETE") /\ Target(req) \notin PkIds(pre))
    => /\ resp.status = 404
       /\ resp.body.message = "User not found"
       /\ Favorites = pre

\* C2: when POST /users/uid/favorites/<kind>/k is followed by
\* GET /users/uid/favorites, the GET answers 200 with an array that holds a
\* row whose <kind>_id is k.
C2_PostThenListed ==
    (/\ IsFavoriteRequest(prev.req, "POST")
     /\ req.endpoint = "get_favorites"
     /\ Arg(req.view_args, "user_id") = Arg(prev.req.view_args, "user_id"))
    => /\ resp.status = 200
       /\ \E i \in 1..Len(resp.body) :
              resp.body[i][KindColumn(prev.req.endpoint)] = Some(Target(prev.req))

\* C3: round trip.  When a POST on a favorites endpoint is followed by a
\* DELETE naming the row id r the store assigned at that POST, the POST has
\* answered 200 with the row of id r, the DELETE answers 200, no row of id r
\* is left, and every other row that was there still is.
C3_RoundTrip ==
    (/\ IsFavoriteRequest(prev.req, "POST")
     /\ IsFavoriteRequest(req, "DELETE")
     /\ Target(req) = AutoId(prev.pre))
    => /\ prev.resp.status = 200
       /\ prev.resp.body.id = Target(req)
       /\ resp.status = 200
       /\ Target(req) \notin PkIds(Favorites)
       /\ \A f \in pre : f.id # Target(req) => f \in Favorites

\* C4: GET /<entity>/<id> with an id that no row of the table has does not
\* end in an unhandled fault.
C4_AbsentIdNoFault ==
    (req.endpoint \in SingleEndpoints /\ Target(req) \notin PkIds(TableOf(req.endpoint)))
    => resp.fault = "none"

\* C5: GET /<entity>/<id> with an id that is the primary key of a row of the
\* table answers 200 with the serialization of that row, whose id field is
\* the requested id.
C5_PresentIdAnswersRow ==
    (req.endpoint \in SingleEndpoints /\ Target(req) \in PkIds(TableOf(req.endpoint)))
    => /\ resp.status = 200
       /\ resp.fault = "none"
       /\ resp.body = [id |-> Target(req)]

\* C5 witness: a read by id of a row that exists has been answered.
C5_Witness ==
    /\ req.endpoint = "get_single_vehicle"
    /\ Target(req) \in PkIds(Vehicles)
    /\ Target(req) # Min(PkIds(Vehicles))
    /\ resp.status = 200

\* C6: GET /users, /people, /vehicles and /planets answer 200 with an array
\* whose length is the number of rows of the table, one serialized element
\* per row.
C6_ListLength ==
    req.endpoint \in ListEndpoints
    => /\ resp.status = 200
       /\ Len(resp.body) = Cardinality(TableOf(req.endpoint))
       /\ Elements(resp.body) = {[id |-> r.id] : r \in TableOf(req.endpoint)}

\* C6 witness: a list request over a table with as many rows as there are
\* ids has been answered.
C6_Witness ==
    /\ req.endpoint = "get_planets"
    /\ Cardinality(Planets) = MaxId
    /\ resp.status = 200
    /\ Len(resp.body) = MaxId

\* C7: a DELETE on a favorites endpoint naming k removes the Favorites row
\* whose own id is k whenever there is one, whatever that row references,
\* and removes no row whose own id is not k (a row whose <kind>_id is k
\* included).
C7_DeleteByOwnId ==
    (IsFavoriteRequest(req, "DELETE") /\ Target(req) \in PkIds(pre))
    => /\ Target(req) \notin PkIds(Favorites)
       /\ \A f \in pre : f.id # Target(req) => f \in Favorites

\* The response to GET /users/uid/favorites in the current state.
GetFavoritesResponse(uid) ==
    dispatch_request({<<"user_id", uid>>}, {}, Outcome(get_favorites, Favorites)).resp

\* C8: GET /users/uid/favorites answers the same for any two user ids:
\* 200 with the array of all rows of the Favorites table.
C8_FavoritesIgnoresUser ==
    /\ \A u1, u2 \in Ids : GetFavoritesResponse(u1) = GetFavoritesResponse(u2)
    /\ req.endpoint = "get_favorites"
       => /\ resp.status = 200
          /\ Len(resp.body) = Cardinality(Favorites)
          /\ Elements(resp.body) =
                 {[id |-> f.id, people_id |-> f.people_id,
                   vehicles_id |-> f.vehicles_id, planets_id |-> f.planets_id] :
                  f \in Favorites}

\* C9: frame.  A GET changes no table; a POST on a favorites endpoint adds
\* exactly one Favorites row and keeps the others; a DELETE answered 200
\* removes exactly one Favorites row and keeps the others; no request
\* changes User, People, Vehicles or Planets.
C9_FrameStep ==
    /\ req'.method = "GET" => tables' = tables
    /\ IsFavoriteRequest(req', "POST")
       => \E new \in Favorites' : new \notin Favorites /\ Favorites' = Favorites \cup {new}
    /\ (IsFavoriteRequest(req', "DELETE") /\ resp'.status = 200)
       => \E old \in Favorites : Favorites' = Favorites \ {old}
    /\ <<User, People, Vehicles, Planets>>' = <<User, People, Vehicles, Planets>>

C9_Frame == [][C9_FrameStep]_vars

====
